---- MODULE Spec2Model ----
(***************************************************************************)
(* A model of the carousel of src/library/js/carousel.js: the state object *)
(* built by normalizeState, the navigation methods nextFrame, prevFrame,   *)
(* jumpToFrame and reset, the commit of updateState and animate, the tile  *)
(* class markers of toggleAria and the prev/next buttons.                  *)
(*                                                                         *)
(* Tiles are the numbers 1..N in document order; JavaScript positions are  *)
(* 0-based, so tileArr[i] of the source is tile i + 1 here.  A className   *)
(* is the sequence of its class names.                                     *)
(***************************************************************************)
EXTENDS Integers, Sequences, FiniteSets, TLC

\* Bounds of the model.
MaxTiles == 5
MaxIncrement == 3
MaxSpacers == 1
MaxDepth == 2

\* outerWidth( firstTile ): the layout is measured outside the carousel.
TileWidth == 100

\* What indexing an array outside its bounds yields (no tile).
Undefined == 0
\* The literal false that prevIndex, prevTile and curTile start with.
False == -1000

VARIABLES
    phase,        \* "new" before setup, "ready" once init has returned,
                  \* "failed" when setup threw, "hung" when it does not return
    options,      \* this.options: increment, incrementMode, the two callbacks
    spacerTiles,  \* the filler tiles that end the list (class carousel-tile-spacer)
    state,        \* this.state
    tiles,        \* every tile's className and tabindex attribute ("" when not set)
    hasAriaInited,\* this.cacheObj.hasAriaInited
    prevBtn,      \* this.prevBtn.disabled
    nextBtn,      \* this.nextBtn.disabled
    rootClass,    \* className of the carousel root (the ul)
    focused,      \* the tile that last received focus()
    last,         \* the last call (setup or a navigation method): what was
                  \* asked and what it did
    stack         \* the navigation calls in flight, innermost last, when
                  \* animate is followed statement by statement

vars == <<phase, options, spacerTiles, state, tiles, hasAriaInited,
          prevBtn, nextBtn, rootClass, focused, last, stack>>

----------------------------------------------------------------------------
\* JavaScript helpers.

Min(a, b) == IF a < b THEN a ELSE b
Max(a, b) == IF a > b THEN a ELSE b

\* Math.ceil( a / b ) for b # 0.
Ceil(a, b) == IF b > 0 THEN -((-a) \div b) ELSE -(a \div (-b))

\* parseInt( x, 10 ) of a number given in halves (5 stands for 2.5): the
\* digits before the decimal point, so the number is cut towards zero.
ParseInt(halves) == IF halves >= 0 THEN halves \div 2 ELSE -((-halves) \div 2)

\* arr[ i ] with a 0-based position: undefined outside the array.
At(arr, i) == IF i >= 0 /\ i < Len(arr) THEN arr[i + 1] ELSE Undefined

\* Array.prototype.slice.call( arr, begin, end ): a negative begin counts from
\* the end of the array, and both ends are cut to the array.
Slice(arr, begin, end) ==
    LET len == Len(arr)
        from == IF begin < 0 THEN Max(len + begin, 0) ELSE Min(begin, len)
        to == IF end < 0 THEN Max(len + end, 0) ELSE Min(end, len)
    IN  IF from < to THEN [k \in 1..(to - from) |-> arr[from + k]] ELSE <<>>

\* The tiles of a sequence, as a set.
Range(seq) == {seq[k] : k \in 1..Len(seq)}

\* classes.replace( /\s<from>/, ' <to>' ): the first class name <from> that
\* follows white space becomes <to>.  lead says that the string starts with
\* white space, so that its first class name follows white space too.
ReplaceClass(classes, lead, from, to) ==
    LET hits == {k \in 1..Len(classes) : classes[k] = from /\ (k > 1 \/ lead)}
    IN  IF hits = {} THEN classes
        ELSE LET first == CHOOSE k \in hits : \A j \in hits : k <= j
             IN  [classes EXCEPT ![first] = to]

\* className.replace( /\bstate-busy\b/, '' ).
RemoveBusy(classes) ==
    LET hits == {k \in 1..Len(classes) : classes[k] = "state-busy"}
    IN  IF hits = {} THEN classes
        ELSE LET first == CHOOSE k \in hits : \A j \in hits : k <= j
             IN  SubSeq(classes, 1, first - 1) \o SubSeq(classes, first + 1, Len(classes))

----------------------------------------------------------------------------
\* The state before setup has run.
NoState ==
    [index |-> 0, offset |-> 0, spacers |-> 0, prevIndex |-> False,
     tileArr |-> <<>>, origTileLength |-> 0, curTileLength |-> 0,
     tileWidth |-> 0, curTile |-> False, prevTile |-> False,
     frameArr |-> <<>>, origFrameLength |-> 0, curFrameLength |-> 0,
     frameWidth |-> 0, curFrame |-> <<>>, prevFrame |-> <<>>,
     frameIndex |-> 0, frameNumber |-> 1, prevFrameIndex |-> 0,
     prevFrameNumber |-> 1, tileDelta |-> 0]

\* The pointers a commit saves as prevIndex, prevTile, prevFrame,
\* prevFrameIndex and prevFrameNumber, read from a state.
Pointers(st) ==
    [index |-> st.index, curTile |-> st.curTile, curFrame |-> st.curFrame,
     frameIndex |-> st.frameIndex, frameNumber |-> st.frameNumber]

NoCall == [op |-> "none", arg |-> 0, preIndex |-> 0, again |-> FALSE,
           committed |-> FALSE, changed |-> FALSE, hooks |-> <<>>,
           error |-> FALSE, pre |-> Pointers(NoState)]

\* The defaults of the options.
defaults ==
    [increment |-> 1, incrementMode |-> "frame",
     preFrameChange |-> FALSE, postFrameChange |-> FALSE]

\* The options a caller may hand to setup.  The increment is given in
\* halves, so that 2.5 is a possible increment; -0.5 is left out.
GivenOptions ==
    [increment : ({-2} \cup 0..(2 * MaxIncrement + 1)),
     incrementMode : {"frame", "tile"},
     preFrameChange : BOOLEAN,
     postFrameChange : BOOLEAN]

Init ==
    /\ phase = "new"
    /\ options = defaults
    /\ \E n \in 0..MaxTiles :
          /\ spacerTiles \in SUBSET {t \in 1..n : t > n - MaxSpacers}
          /\ tiles = [t \in 1..n |->
                        [className |-> IF t \in spacerTiles
                                       THEN <<"carousel-tile-spacer">> ELSE <<>>,
                         tabindex |-> ""]]
          /\ state = NoState
    /\ hasAriaInited = FALSE
    /\ prevBtn = FALSE
    /\ nextBtn = FALSE
    /\ rootClass = <<"example-carousel">>
    /\ focused = Undefined
    /\ last = NoCall
    /\ stack = <<>>

----------------------------------------------------------------------------
\* toggleAria: the class markers of the tiles.  dom is the record of the
\* tiles (className and tabindex of each) and of the cached hasAriaInited
\* flag (inited).

\* One pass of the loop of toggleAria over one item.
ToggleItem(item, inited, add, initClass) ==
    LET classes == item.className \o initClass
        lead == item.className = <<>> /\ initClass # <<>>
        isSpacer == \E k \in 1..Len(classes) : classes[k] = "carousel-tile-spacer"
        replaced == IF add
                    THEN ReplaceClass(classes, lead, "state-visible", "state-hidden")
                    ELSE ReplaceClass(classes, lead, "state-hidden", "state-visible")
    IN  IF isSpacer THEN item
        ELSE IF ~inited
             THEN [className |-> replaced \o <<"state-hidden">>, tabindex |-> "-1"]
             ELSE [className |-> replaced, tabindex |-> item.tabindex]

toggleAria(dom, itemArray, operation, initClass) ==
    LET add == operation = "add"
        items == Range(itemArray)
    IN  [tiles |-> [t \in DOMAIN dom.tiles |->
                      IF t \in items
                      THEN ToggleItem(dom.tiles[t], dom.inited, add, initClass)
                      ELSE dom.tiles[t]],
         inited |-> TRUE]

\* The markers a reader of the page sees.
HasClass(t, name) ==
    \E k \in 1..Len(tiles[t].className) : tiles[t].className[k] = name
IsVisible(t) == HasClass(t, "state-visible")
IsHidden(t) == HasClass(t, "state-hidden")

----------------------------------------------------------------------------
\* normalizeState: the frames and the state object.

\* The loop that builds frameArr: one slice of increment tiles per pass,
\* while sec < tileArr.length / increment.
BuildFrames(tileArr, increment) ==
    [sec \in 1..Ceil(Len(tileArr), increment) |->
        Slice(tileArr, increment * (sec - 1), increment * sec)]

\* state.frameArr[ frameIndex ]: undefined, written <<>>, when frameArr
\* has no such frame.
FrameAt(frameArr, frameIndex) ==
    IF frameIndex >= 0 /\ frameIndex < Len(frameArr)
    THEN frameArr[frameIndex + 1] ELSE <<>>

\* normalizeState throws a TypeError: outerWidth( firstTile ) reads a
\* property of undefined when there is no tile, and toggleAria( curFrame )
\* does when frameArr has no first frame.
normalizeThrows(tileArr, increment) ==
    \/ Len(tileArr) = 0
    \/ Ceil(Len(tileArr), increment) <= 0

\* The state object normalizeState leaves in this.state.
normalizeState(tileArr, increment, tileWidth) ==
    LET index == 0
        frameLength == Ceil(Len(tileArr), increment)
        frameArr == BuildFrames(tileArr, increment)
        curTileLength == Len(tileArr)
        curFrameLength == Ceil(curTileLength, increment)
        frameIndex == Ceil(index, increment)
    IN  [index |-> index,
         offset |-> 0,
         spacers |-> 0,
         prevIndex |-> False,
         tileArr |-> tileArr,
         origTileLength |-> Len(tileArr),
         curTileLength |-> curTileLength,
         tileWidth |-> tileWidth,
         curTile |-> At(tileArr, index),
         prevTile |-> False,
         frameArr |-> frameArr,
         origFrameLength |-> frameLength,
         curFrameLength |-> curFrameLength,
         frameWidth |-> increment * tileWidth,
         curFrame |-> FrameAt(frameArr, frameIndex),
         prevFrame |-> <<>>,
         frameIndex |-> frameIndex,
         frameNumber |-> frameIndex + 1,
         prevFrameIndex |-> frameIndex,
         prevFrameNumber |-> frameIndex + 1,
         tileDelta |-> (increment * curFrameLength) - curTileLength]

\* The two toggleAria calls of normalizeState: every tile gets the class
\* carousel-tile and is hidden, then the first frame is shown.
normalizeAria(dom, st) ==
    LET all == toggleAria(dom, st.tileArr, "add", <<"carousel-tile">>)
    IN  toggleAria(all, st.curFrame, "remove", <<>>)

\* buildNavigation: the disabled flags the two new buttons are given.
buildNavigation(st, increment) ==
    [prevBtn |-> st.curTileLength <= increment \/ st.index = 0,
     nextBtn |-> st.curTileLength <= increment]

\* setup and init: the options are merged and parsed, then normalizeState
\* and buildNavigation run.
\*  - Without a tile normalizeState throws before this.state is assigned.
\*  - With increment 0 the loop that builds frameArr never ends, since
\*    sec < tileArr.length / 0 holds for every sec.
\*  - With a negative increment the loop is not entered and normalizeState
\*    throws after this.state is assigned and every tile is marked.
Setup ==
    /\ phase = "new"
    /\ \E given \in GivenOptions :
          LET ops == [given EXCEPT !.increment = ParseInt(given.increment)]
              n == Cardinality(DOMAIN tiles)
              tileArr == [t \in 1..n |-> t]
              dom == [tiles |-> tiles, inited |-> hasAriaInited]
              all == toggleAria(dom, tileArr, "add", <<"carousel-tile">>)
              call == [NoCall EXCEPT !.op = "setup", !.arg = given.increment]
          IN  /\ options' = ops
              /\ IF n = 0
                 THEN /\ phase' = "failed"
                      /\ last' = [call EXCEPT !.error = TRUE]
                      /\ UNCHANGED <<state, tiles, hasAriaInited, prevBtn, nextBtn>>
                 ELSE IF ops.increment = 0
                 THEN /\ phase' = "hung"
                      /\ tiles' = all.tiles
                      /\ hasAriaInited' = all.inited
                      /\ last' = call
                      /\ UNCHANGED <<state, prevBtn, nextBtn>>
                 ELSE IF normalizeThrows(tileArr, ops.increment)
                 THEN /\ phase' = "failed"
                      /\ state' = normalizeState(tileArr, ops.increment, TileWidth)
                      /\ tiles' = all.tiles
                      /\ hasAriaInited' = all.inited
                      /\ last' = [call EXCEPT !.error = TRUE]
                      /\ UNCHANGED <<prevBtn, nextBtn>>
                 ELSE LET st == normalizeState(tileArr, ops.increment, TileWidth)
                          shown == normalizeAria(dom, st)
                          nav == buildNavigation(st, ops.increment)
                      IN  /\ phase' = "ready"
                          /\ state' = st
                          /\ tiles' = shown.tiles
                          /\ hasAriaInited' = shown.inited
                          /\ prevBtn' = nav.prevBtn
                          /\ nextBtn' = nav.nextBtn
                          /\ last' = call
    /\ UNCHANGED <<spacerTiles, rootClass, focused, stack>>

\* A navigation method called on an instance whose setup threw before
\* this.state was assigned: reading this.state.index throws a TypeError.
callWithoutState ==
    /\ phase = "failed"
    /\ state = NoState
    /\ \E op \in {"nextFrame", "prevFrame", "jumpToFrame", "reset"} :
          last' = [NoCall EXCEPT !.op = op, !.error = TRUE,
                                 !.again = last.op = op]
    /\ UNCHANGED <<phase, options, spacerTiles, state, tiles, hasAriaInited,
                   prevBtn, nextBtn, rootClass, focused, stack>>

----------------------------------------------------------------------------
\* updateState without the clamp to curTileLength - increment: the index
\* asked for is only floored at 0.
updateStateNoUpperClamp(st, ops, requested) ==
    LET increment == ops.increment
        index == IF requested < 0 THEN 0 ELSE requested
        frameIndex == Ceil(index, increment)
        isLastFrame == index = st.curTileLength - increment
    IN  [st EXCEPT
           !.index = index,
           !.offset = st.tileWidth * index,
           !.prevIndex = st.index,
           !.prevTile = st.curTile,
           !.curTile = IF isLastFrame /\ st.tileDelta # 0 /\ ops.incrementMode = "frame"
                       THEN At(st.tileArr, index + st.tileDelta)
                       ELSE At(st.tileArr, index),
           !.curFrame = Slice(st.tileArr, index, increment + index),
           !.prevFrame = st.curFrame,
           !.frameIndex = frameIndex,
           !.frameNumber = frameIndex + 1,
           !.prevFrameIndex = st.frameIndex,
           !.prevFrameNumber = st.frameNumber]

\* updateState saving the prev* pointers after the new ones are written
\* instead of before.
updateStatePrevFromNew(st, ops, requested) ==
    LET increment == ops.increment
        index == IF requested > st.curTileLength - increment
                 THEN st.curTileLength - increment
                 ELSE IF requested < 0 THEN 0 ELSE requested
        frameIndex == Ceil(index, increment)
        frameNumber == frameIndex + 1
        isLastFrame == index = st.curTileLength - increment
        curTile == IF isLastFrame /\ st.tileDelta # 0 /\ ops.incrementMode = "frame"
                   THEN At(st.tileArr, index + st.tileDelta)
                   ELSE At(st.tileArr, index)
        curFrame == Slice(st.tileArr, index, increment + index)
    IN  [st EXCEPT
           !.index = index,
           !.offset = st.tileWidth * index,
           !.prevIndex = index,
           !.prevTile = curTile,
           !.curTile = curTile,
           !.curFrame = curFrame,
           !.prevFrame = curFrame,
           !.frameIndex = frameIndex,
           !.frameNumber = frameNumber,
           !.prevFrameIndex = frameIndex,
           !.prevFrameNumber = frameNumber]

\* updateState: the index is clamped and the pointers are recomputed.
updateState(st, ops, requested) ==
    LET increment == ops.increment
        index == IF requested > st.curTileLength - increment
                 THEN st.curTileLength - increment
                 ELSE IF requested < 0 THEN 0 ELSE requested
        frameIndex == Ceil(index, increment)
        frameNumber == frameIndex + 1
        isLastFrame == index = st.curTileLength - increment
    IN  [st EXCEPT
           !.index = index,
           !.offset = st.tileWidth * index,
           !.prevIndex = st.index,
           !.prevTile = st.curTile,
           !.curTile = IF isLastFrame /\ st.tileDelta # 0 /\ ops.incrementMode = "frame"
                       THEN At(st.tileArr, index + st.tileDelta)
                       ELSE At(st.tileArr, index),
           !.curFrame = Slice(st.tileArr, index, increment + index),
           !.prevFrame = st.curFrame,
           !.frameIndex = frameIndex,
           !.frameNumber = frameNumber,
           !.prevFrameIndex = st.frameIndex,
           !.prevFrameNumber = st.frameNumber]

\* updateNavigation with isLast tested by > instead of >=.
updateNavigationStrict(st, increment) ==
    [prevBtn |-> st.index = 0, nextBtn |-> st.index + increment > st.curTileLength]

\* updateNavigation: the disabled flags of the two buttons.
updateNavigation(st, increment) ==
    LET isFirst == st.index = 0
        isLast == st.index + increment >= st.curTileLength
    IN  [prevBtn |-> isFirst, nextBtn |-> isLast]

\* The three toggleAria calls of animate: every tile shown, every tile
\* hidden, then the tiles of curFrame shown.
animateAria(dom, st) ==
    LET shown == toggleAria(dom, st.tileArr, "remove", <<>>)
        hidden == toggleAria(shown, st.tileArr, "add", <<>>)
    IN  toggleAria(hidden, st.curFrame, "remove", <<>>)

\* state.curTile.focus() throws a TypeError when curTile is no tile.
FocusThrows(st) == st.curTile \notin Range(st.tileArr)

\* The callbacks animate calls, in order: preFrameChange before the commit
\* of the markers, postFrameChange after it unless focus() threw.
animateHooks(st, ops) ==
    (IF ops.preFrameChange THEN <<"preFrameChange">> ELSE <<>>)
    \o (IF ops.postFrameChange /\ ~FocusThrows(st) THEN <<"postFrameChange">> ELSE <<>>)

\* The class of the carousel root when animate is left: set to state-busy,
\* which is then removed unless focus() threw.
animateRoot(st) ==
    IF FocusThrows(st) THEN <<"state-busy">> ELSE RemoveBusy(<<"state-busy">>)

\* updateState( index, true ): the commit of a navigation call, animate
\* included.
Commit(op, arg, requested) ==
    LET st == updateState(state, options, requested)
        dom == animateAria([tiles |-> tiles, inited |-> hasAriaInited], st)
        nav == updateNavigation(st, options.increment)
    IN  /\ state' = st
        /\ tiles' = dom.tiles
        /\ hasAriaInited' = dom.inited
        /\ prevBtn' = nav.prevBtn
        /\ nextBtn' = nav.nextBtn
        /\ rootClass' = animateRoot(st)
        /\ focused' = IF FocusThrows(st) THEN focused ELSE st.curTile
        /\ last' = [op |-> op, arg |-> arg, preIndex |-> state.index,
                    again |-> last.op = op /\ last.arg = arg,
                    committed |-> TRUE,
                    changed |-> st # state,
                    hooks |-> animateHooks(st, options),
                    error |-> FocusThrows(st),
                    pre |-> Pointers(state)]
        /\ UNCHANGED <<phase, options, spacerTiles, stack>>

\* A call that returns before updateState.
Skip(op, arg) ==
    /\ last' = [op |-> op, arg |-> arg, preIndex |-> state.index,
                again |-> last.op = op /\ last.arg = arg,
                committed |-> FALSE, changed |-> FALSE, hooks |-> <<>>,
                error |-> FALSE, pre |-> Pointers(state)]
    /\ UNCHANGED <<phase, options, spacerTiles, state, tiles, hasAriaInited,
                   prevBtn, nextBtn, rootClass, focused, stack>>

\* The index nextFrame and prevFrame ask for.
nextIndex(st, ops) ==
    IF ops.incrementMode = "tile" THEN st.index + 1 ELSE st.index + ops.increment

prevIndex(st, ops) ==
    IF ops.incrementMode = "tile" THEN st.index - 1 ELSE st.index - ops.increment

\* The index jumpToFrame asks for, and its guard.
jumpIndex(frame, increment) ==
    LET index == (frame * increment) - increment
    IN  IF index < 0 THEN 0 ELSE index

\* The guard of jumpToFrame without its test of frame against the frame count.
jumpGuardIndexOnly(st, frame, increment) ==
    jumpIndex(frame, increment) = st.index

jumpGuard(st, frame, increment) ==
    jumpIndex(frame, increment) = st.index \/ frame > st.curFrameLength

\* The frames a caller may ask jumpToFrame for.
JumpArgs(st) == 0..(st.curFrameLength + 1)

nextFrame ==
    /\ phase = "ready"
    /\ stack = <<>>
    /\ Commit("nextFrame", 0, nextIndex(state, options))

prevFrame ==
    /\ phase = "ready"
    /\ stack = <<>>
    /\ Commit("prevFrame", 0, prevIndex(state, options))

jumpToFrame ==
    /\ phase = "ready"
    /\ stack = <<>>
    /\ \E frame \in JumpArgs(state) :
          IF jumpGuard(state, frame, options.increment)
          THEN Skip("jumpToFrame", frame)
          ELSE Commit("jumpToFrame", frame, jumpIndex(frame, options.increment))

reset ==
    /\ phase = "ready"
    /\ stack = <<>>
    /\ Commit("reset", 0, 0)

\* handleNavigation: a click inside the wrapper.  A disabled button receives
\* no click; a click on anything but the two buttons is ignored.
handleNavigation ==
    /\ phase = "ready"
    /\ stack = <<>>
    /\ \E target \in {"data-next", "data-prev", "tile"} :
          CASE target = "data-next" ->
                  /\ ~nextBtn
                  /\ Commit("nextFrame", 0, nextIndex(state, options))
            [] target = "data-prev" ->
                  /\ ~prevBtn
                  /\ Commit("prevFrame", 0, prevIndex(state, options))
            [] OTHER -> Skip("click", 0)

Next ==
    \/ Setup
    \/ callWithoutState
    \/ nextFrame
    \/ prevFrame
    \/ jumpToFrame
    \/ reset
    \/ handleNavigation

Spec == Init /\ [][Next]_vars

----------------------------------------------------------------------------
\* animate followed statement by statement.  A navigation call in flight is
\* a frame of the stack: the method, the number of statements of animate it
\* has executed (pc), the callback it is inside of ("none" while the
\* carousel's own code runs), whether that callback has made no call yet
\* (fresh) and the statements executed so far (log).  A
\* callback is the caller's code: it may read the state, and it may call
\* nextFrame before it returns.

\* The statements of animate, in the order of the source.
animateOrderHookAfterMarkers ==
    <<"state-busy", "showAll", "updateNavigation", "hideAll", "showCurFrame",
      "preFrameChange", "focus", "removeBusy", "postFrameChange">>

animateOrderNavigationLast ==
    <<"preFrameChange", "state-busy", "showAll", "hideAll", "showCurFrame",
      "updateNavigation", "focus", "removeBusy", "postFrameChange">>

animateOrder ==
    <<"preFrameChange", "state-busy", "showAll", "updateNavigation",
      "hideAll", "showCurFrame", "focus", "removeBusy", "postFrameChange">>

Top == stack[Len(stack)]

InCallback == stack # <<>> /\ Top.hook # "none"

\* The innermost call is about to execute the named statement of animate.
AtStatement(name) ==
    /\ phase = "ready"
    /\ stack # <<>>
    /\ Top.hook = "none"
    /\ Top.pc < Len(animateOrder)
    /\ animateOrder[Top.pc + 1] = name

\* The stack once the innermost call has executed its next statement:
\* entered says which callback the statement has called, if any; animate
\* returns after its last statement.
Advance(entered, executed) ==
    LET name == animateOrder[Top.pc + 1]
        top == [op |-> Top.op, pc |-> Top.pc + 1, hook |-> entered,
                fresh |-> entered # "none",
                log |-> IF executed THEN Append(Top.log, name) ELSE Top.log]
        rest == SubSeq(stack, 1, Len(stack) - 1)
    IN  IF top.pc = Len(animateOrder) /\ entered = "none"
        THEN rest
        ELSE Append(rest, top)

\* A navigation method up to the end of updateState.  A call comes from
\* outside while nothing is in flight, or from a callback.
Enter(op, requested) ==
    /\ phase = "ready"
    /\ stack = <<>> \/ (InCallback /\ Len(stack) < MaxDepth)
    /\ state' = updateState(state, options, requested)
    /\ LET callers == [k \in DOMAIN stack |-> [stack[k] EXCEPT !.fresh = FALSE]]
       IN  stack' = Append(callers, [op |-> op, pc |-> 0, hook |-> "none",
                                     fresh |-> FALSE,
                                     log |-> <<"updateState">>])
    /\ UNCHANGED <<phase, options, spacerTiles, tiles, hasAriaInited,
                   prevBtn, nextBtn, rootClass, focused, last>>

nextFrameEnters ==
    /\ phase = "ready"
    /\ Enter("nextFrame", nextIndex(state, options))

prevFrameEnters ==
    /\ stack = <<>>
    /\ Enter("prevFrame", prevIndex(state, options))

jumpToFrameEnters ==
    /\ stack = <<>>
    /\ \E frame \in JumpArgs(state) :
          /\ ~jumpGuard(state, frame, options.increment)
          /\ Enter("jumpToFrame", jumpIndex(frame, options.increment))

resetEnters ==
    /\ stack = <<>>
    /\ Enter("reset", 0)

\* if ( preFrameChange ) preFrameChange.call( this, state )
animatePreFrameChange ==
    /\ AtStatement("preFrameChange")
    /\ stack' = IF options.preFrameChange
                THEN Advance("preFrameChange", TRUE)
                ELSE Advance("none", FALSE)
    /\ UNCHANGED <<phase, options, spacerTiles, state, tiles, hasAriaInited,
                   prevBtn, nextBtn, rootClass, focused, last>>

\* carousel.setAttribute( 'class', 'state-busy' )
animateBusy ==
    /\ AtStatement("state-busy")
    /\ rootClass' = <<"state-busy">>
    /\ stack' = Advance("none", TRUE)
    /\ UNCHANGED <<phase, options, spacerTiles, state, tiles, hasAriaInited,
                   prevBtn, nextBtn, focused, last>>

\* One toggleAria call of animate.
animateToggle(name, itemArray, operation) ==
    /\ AtStatement(name)
    /\ LET dom == toggleAria([tiles |-> tiles, inited |-> hasAriaInited],
                             itemArray, operation, <<>>)
       IN  /\ tiles' = dom.tiles
           /\ hasAriaInited' = dom.inited
    /\ stack' = Advance("none", TRUE)
    /\ UNCHANGED <<phase, options, spacerTiles, state, prevBtn, nextBtn,
                   rootClass, focused, last>>

animateShowAll ==
    /\ phase = "ready"
    /\ animateToggle("showAll", state.tileArr, "remove")

animateHideAll ==
    /\ phase = "ready"
    /\ animateToggle("hideAll", state.tileArr, "add")

animateShowCurFrame ==
    /\ phase = "ready"
    /\ animateToggle("showCurFrame", state.curFrame, "remove")

\* this.updateNavigation()
animateUpdateNavigation ==
    /\ AtStatement("updateNavigation")
    /\ LET nav == updateNavigation(state, options.increment)
       IN  /\ prevBtn' = nav.prevBtn
           /\ nextBtn' = nav.nextBtn
    /\ stack' = Advance("none", TRUE)
    /\ UNCHANGED <<phase, options, spacerTiles, state, tiles, hasAriaInited,
                   rootClass, focused, last>>

\* state.curTile.focus(): a TypeError leaves every call in flight.
animateFocus ==
    /\ AtStatement("focus")
    /\ IF FocusThrows(state)
       THEN /\ stack' = <<>>
            /\ UNCHANGED focused
       ELSE /\ stack' = Advance("none", TRUE)
            /\ focused' = state.curTile
    /\ UNCHANGED <<phase, options, spacerTiles, state, tiles, hasAriaInited,
                   prevBtn, nextBtn, rootClass, last>>

\* carousel.className = carousel.className.replace( /\bstate-busy\b/, '' )
animateRemoveBusy ==
    /\ AtStatement("removeBusy")
    /\ rootClass' = RemoveBusy(rootClass)
    /\ stack' = Advance("none", TRUE)
    /\ UNCHANGED <<phase, options, spacerTiles, state, tiles, hasAriaInited,
                   prevBtn, nextBtn, focused, last>>

\* postFrameChange && postFrameChange.call( this, state )
animatePostFrameChange ==
    /\ AtStatement("postFrameChange")
    /\ stack' = IF options.postFrameChange
                THEN Advance("postFrameChange", TRUE)
                ELSE Advance("none", FALSE)
    /\ UNCHANGED <<phase, options, spacerTiles, state, tiles, hasAriaInited,
                   prevBtn, nextBtn, rootClass, focused, last>>

\* The callback the innermost call is inside of returns.
callbackReturns ==
    /\ InCallback
    /\ LET top == [Top EXCEPT !.hook = "none", !.fresh = FALSE]
           rest == SubSeq(stack, 1, Len(stack) - 1)
       IN  stack' = IF top.pc = Len(animateOrder) THEN rest ELSE Append(rest, top)
    /\ UNCHANGED <<phase, options, spacerTiles, state, tiles, hasAriaInited,
                   prevBtn, nextBtn, rootClass, focused, last>>

StepNext ==
    \/ Setup
    \/ nextFrameEnters
    \/ prevFrameEnters
    \/ jumpToFrameEnters
    \/ resetEnters
    \/ animatePreFrameChange
    \/ animateBusy
    \/ animateShowAll
    \/ animateUpdateNavigation
    \/ animateHideAll
    \/ animateShowCurFrame
    \/ animateFocus
    \/ animateRemoveBusy
    \/ animatePostFrameChange
    \/ callbackReturns

StepSpec == Init /\ [][StepNext]_vars

\* The carousel driven by nextFrame, prevFrame and reset alone.
PagingNext ==
    \/ Setup
    \/ nextFrame
    \/ prevFrame
    \/ reset

PagingSpec == Init /\ [][PagingNext]_vars

----------------------------------------------------------------------------
\* The claims.  N is the tile count, I the increment, and step what one
\* nextFrame or prevFrame asks to move by.

Ready == phase = "ready"
N == state.curTileLength
I == options.increment
FrameCount == state.curFrameLength
Step == IF options.incrementMode = "tile" THEN 1 ELSE I
MaxIndex == Max(0, N - I)

\* C1: in every state reachable from normalization by next, prev,
\* jumpToFrame and reset, for every N >= 1 and I >= 1 (N < I included), the
\* committed index satisfies 0 <= index <= max(0, N - I).
C1_IndexInRange ==
    Ready => 0 <= state.index /\ state.index <= MaxIndex

\* C2: next() sets index to min(index + step, max(0, N - I)), so that index
\* never exceeds max(0, N - I) and a next() at the maximum leaves index
\* unchanged.
C2_NextClamps ==
    (Ready /\ last.op = "nextFrame")
        => /\ state.index = Min(last.preIndex + Step, MaxIndex)
           /\ state.index <= MaxIndex
           /\ (last.preIndex = MaxIndex => state.index = last.preIndex)

\* C3: prev() sets index to max(index - step, 0); in particular prev() at
\* index 0 leaves index 0 for every N >= 1 and I >= 1.
C3_PrevClamps ==
    (Ready /\ last.op = "prevFrame")
        => /\ state.index = Max(last.preIndex - Step, 0)
           /\ (last.preIndex = 0 => state.index = 0)

C5_JumpAgainIsNoOp ==
    (Ready /\ last.op = "jumpToFrame" /\ last.again /\ last.arg \in 1..FrameCount)
        => ~last.changed /\ last.hooks = <<>>

\* C6: jumpToFrame(n) leaves the whole state unchanged and fires no callback
\* whenever max(0, n * I - I) equals the current index or n exceeds
\* frameCount.
C6_JumpGuardNoOp ==
    (Ready /\ last.op = "jumpToFrame"
           /\ (Max(0, last.arg * I - I) = last.preIndex \/ last.arg > FrameCount))
        => ~last.changed /\ last.hooks = <<>> /\ state.index = last.preIndex

\* C6 witness: both callbacks are set, the carousel has moved off index 0,
\* and a jumpToFrame beyond frameCount, or one to the frame that starts at
\* the current index, has returned.
C6_Witness ==
    /\ Ready /\ last.op = "jumpToFrame"
    /\ options.preFrameChange /\ options.postFrameChange
    /\ last.preIndex > 0
    /\ last.arg * I - I = last.preIndex
    /\ last.hooks = <<>>

\* The index jumpToFrame(1) yields when called with the index at preIndex.
JumpOneIndex(preIndex) ==
    LET pre == [state EXCEPT !.index = preIndex]
    IN  IF jumpGuard(pre, 1, I) THEN preIndex
        ELSE updateState(pre, options, jumpIndex(1, I)).index

\* C7: from any reachable state and for every N >= 1, I >= 1, reset() yields
\* index = 0, which is the index jumpToFrame(1) yields from the same state.
C7_ResetYieldsZero ==
    (Ready /\ last.op = "reset")
        => state.index = 0 /\ state.index = JumpOneIndex(last.preIndex)

\* A frame: increment consecutive tiles (all of them when there are fewer)
\* that start at an index within [0, max(0, N - I)].
IsFrame(frame) ==
    \E start \in 0..MaxIndex : frame = Slice(state.tileArr, start, start + I)

\* C8: after normalization and after every transition, exactly the tiles of
\* one frame, the current frame, are marked visible, every other tile is
\* marked hidden, and a filler tile is never marked visible.
C8_OneFrameVisible ==
    Ready =>
        /\ IsFrame(state.curFrame)
        /\ \A t \in DOMAIN tiles :
              IF t \in spacerTiles
              THEN ~IsVisible(t)
              ELSE /\ IsVisible(t) <=> t \in Range(state.curFrame)
                   /\ IsHidden(t) <=> t \notin Range(state.curFrame)

\* C9: when N <= I (a single frame), the prev and the next button are both
\* disabled in every reachable state.
C9_SingleFrameDisabled ==
    (Ready /\ N <= I) => prevBtn /\ nextBtn

\* C10: after normalization and after every commit, the prev button is
\* disabled exactly when index = 0 and the next button exactly when index +
\* increment >= curTileLength.
C10_AffordancesFollowIndex ==
    Ready => /\ prevBtn <=> state.index = 0
             /\ nextBtn <=> state.index + I >= state.curTileLength

\* C10 witness: a next() has been committed on a carousel of several frames
\* and has reached the last one: prev is enabled, next disabled.
C10_Witness ==
    /\ Ready /\ last.op = "nextFrame" /\ N > I
    /\ state.index = N - I /\ ~prevBtn /\ nextBtn

\* The number of tiles in the list, whether or not setup has read it.
TileCount == Cardinality(DOMAIN tiles)

\* C11: normalizing an empty tile sequence (N = 0) raises no error and gives
\* an inert state with frameCount = 0; afterwards no navigation call raises
\* an error or changes anything, and prev and next are both disabled.
C11_EmptyIsInert ==
    (TileCount = 0 /\ phase # "new")
        => /\ phase = "ready"
           /\ ~last.error
           /\ FrameCount = 0
           /\ state.index = 0
           /\ prevBtn /\ nextBtn

\* C12: setup with an increment that is <= 0 or not an integer fails with an
\* error raised to its caller before any frame is built: it neither hangs
\* nor leaves a usable carousel.
C12_BadIncrementFailsFast ==
    (last.op = "setup" /\ (last.arg <= 0 \/ last.arg % 2 = 1))
        => /\ phase = "failed"
           /\ last.error
           /\ state.frameArr = <<>>

\* C13: for all N >= 0 and I >= 1, normalization partitions the tiles into
\* frameCount = ceil(N / I) consecutive frames that do not overlap, whose
\* sizes sum to N and of which all but the last have exactly I tiles.
C13_Partition ==
    (phase # "new" /\ I >= 1)
        => /\ phase = "ready"
           /\ FrameCount = Ceil(TileCount, I)
           /\ Len(state.frameArr) = FrameCount
           /\ \A k \in 1..FrameCount :
                 /\ k < FrameCount => Len(state.frameArr[k]) = I
                 /\ Len(state.frameArr[k]) = Min(k * I, TileCount) - (k - 1) * I
                 /\ \A j \in 1..Len(state.frameArr[k]) :
                       state.frameArr[k][j] = (k - 1) * I + j

\* C14: once normalization has succeeded, no call of next, prev,
\* jumpToFrame or reset raises an error, whatever N, I and the mode are
\* (N < I in tile mode included).
C14_NavigationNeverThrows ==
    Ready => ~last.error

\* The callbacks the options configure, in the order of a full commit.
ConfiguredHooks ==
    (IF options.preFrameChange THEN <<"preFrameChange">> ELSE <<>>)
    \o (IF options.postFrameChange THEN <<"postFrameChange">> ELSE <<>>)

\* C18: every next, prev and reset call runs the full commit, so each
\* configured callback fires exactly once, preFrameChange then
\* postFrameChange; a next at the last index and a prev at index 0 leave the
\* index as it was.
C18_BoundaryRecommits ==
    (Ready /\ last.op \in {"nextFrame", "prevFrame", "reset"})
        => /\ last.committed
           /\ last.hooks = ConfiguredHooks
           /\ (last.op = "nextFrame" /\ last.preIndex = MaxIndex)
                 => state.index = last.preIndex
           /\ (last.op = "prevFrame" /\ last.preIndex = 0)
                 => state.index = last.preIndex

\* C19: after every commit curFrame is the window of consecutive tiles that
\* starts at the committed index and ends after I tiles or at the last tile:
\* positions index .. min(index + I, N) - 1.
C19_CurFrameWindow ==
    (Ready /\ last.committed)
        => state.curFrame =
              [j \in 1..(Min(state.index + I, N) - state.index)
                  |-> At(state.tileArr, state.index + j - 1)]

\* C20: on every commit prevIndex, prevTile, prevFrame, prevFrameIndex and
\* prevFrameNumber are the values index, curTile, curFrame, frameIndex and
\* frameNumber had just before it.
C20_PrevIsPreCommit ==
    (Ready /\ last.committed)
        => /\ state.prevIndex = last.pre.index
           /\ state.prevTile = last.pre.curTile
           /\ state.prevFrame = last.pre.curFrame
           /\ state.prevFrameIndex = last.pre.frameIndex
           /\ state.prevFrameNumber = last.pre.frameNumber

\* A commit that moved to another frame and kept the frame it left.
C20_Witness ==
    /\ Ready /\ last.committed
    /\ state.index # last.pre.index
    /\ state.frameIndex # last.pre.frameIndex
    /\ state.curTile # last.pre.curTile
    /\ state.prevIndex = last.pre.index
    /\ state.prevTile = last.pre.curTile
    /\ state.prevFrame = last.pre.curFrame
    /\ state.prevFrame # state.curFrame
    /\ state.prevFrameNumber = last.pre.frameNumber

----------------------------------------------------------------------------
\* What a callback can read while a call is in flight.

\* The tiles that carry the visible marker.
VisibleTiles == {t \in DOMAIN tiles : IsVisible(t)}

\* The tiles that carry the visible marker when a frame is shown: a filler
\* tile is never marked.
MarkersOf(frame) == Range(frame) \ spacerTiles

\* The disabled flags are those updateNavigation derives from an index.
FlagsMatch(index) ==
    [prevBtn |-> prevBtn, nextBtn |-> nextBtn]
        = updateNavigation([state EXCEPT !.index = index], I)

\* The pointers of the state are those of its index.
PointersMatch ==
    /\ state.curFrame = Slice(state.tileArr, state.index, state.index + I)
    /\ state.frameIndex = Ceil(state.index, I)
    /\ state.frameNumber = state.frameIndex + 1
    /\ state.offset = state.tileWidth * state.index

\* C15: whenever a callback runs, before or after the transition, the
\* pointers of the state, the visible markers of the tiles and the disabled
\* flags of prev and next all belong to the same index.
C15_HooksSeeWholeCommit ==
    InCallback
        => /\ PointersMatch
           /\ VisibleTiles = MarkersOf(state.curFrame)
           /\ FlagsMatch(state.index)

\* C15, as the code has it: in postFrameChange pointers, markers and flags
\* all belong to state.index and the root is not busy; in preFrameChange
\* the state is already wholly that of the new index, while the markers and
\* the flags are not yet touched: when the callback of a call made from
\* outside is entered they are those of prevFrame and prevIndex.
C15_HookViews ==
    InCallback
        => /\ PointersMatch
           /\ Top.hook = "postFrameChange"
                 => /\ VisibleTiles = MarkersOf(state.curFrame)
                    /\ FlagsMatch(state.index)
                    /\ "state-busy" \notin Range(rootClass)
           /\ (Top.hook = "preFrameChange" /\ Top.fresh /\ Len(stack) = 1)
                 => /\ VisibleTiles = MarkersOf(state.prevFrame)
                    /\ FlagsMatch(state.prevIndex)

\* preFrameChange entered by a call from outside that moved the index: the
\* state shows the new frame, the markers the frame that is left.
C15_Witness ==
    /\ InCallback
    /\ Top.hook = "preFrameChange" /\ Top.fresh /\ Len(stack) = 1
    /\ N >= I
    /\ state.index # state.prevIndex
    /\ PointersMatch
    /\ VisibleTiles = MarkersOf(state.prevFrame)
    /\ VisibleTiles # MarkersOf(state.curFrame)
    /\ FlagsMatch(state.prevIndex)
    /\ ~FlagsMatch(state.index)

\* C16: a navigation call made while another is in flight is queued or
\* dropped: no call runs its commit before the call in flight has returned.
C16_NoCallWhileInFlight ==
    Len(stack) <= 1

\* The place of a statement in a log, 0 when it was not executed.
Place(log, name) ==
    IF \E k \in DOMAIN log : log[k] = name
    THEN CHOOSE k \in DOMAIN log : log[k] = name
    ELSE 0

Before(log, a, b) == Place(log, a) # 0 /\ Place(log, a) < Place(log, b)

\* C17: a transition runs index and pointers, then the tile markers (hide
\* all, show curFrame), then the disabled flags, then the hook: when the
\* flags are recomputed the markers are settled, and no callback has fired
\* before.
C17_ClaimedOrder ==
    \A k \in DOMAIN stack :
        LET log == stack[k].log
        IN  /\ Place(log, "updateNavigation") # 0
                 => /\ Before(log, "updateState", "updateNavigation")
                    /\ Before(log, "hideAll", "updateNavigation")
                    /\ Before(log, "showCurFrame", "updateNavigation")
            /\ Place(log, "preFrameChange") # 0
                 => Before(log, "updateNavigation", "preFrameChange")
            /\ Place(log, "postFrameChange") # 0
                 => Before(log, "updateNavigation", "postFrameChange")

\* The statements of a transition in the order of updateState and animate.
CodeOrder ==
    <<"updateState", "preFrameChange", "state-busy", "showAll",
      "updateNavigation", "hideAll", "showCurFrame", "focus", "removeBusy",
      "postFrameChange">>

Executes(name) ==
    /\ name = "preFrameChange" => options.preFrameChange
    /\ name = "postFrameChange" => options.postFrameChange

IsPrefix(a, b) == Len(a) <= Len(b) /\ a = SubSeq(b, 1, Len(a))

\* C17, as the code has it: index and pointers, preFrameChange, busy, every
\* tile shown, the disabled flags, every tile hidden, curFrame shown, focus,
\* busy removed, postFrameChange.  The flags are recomputed after
\* preFrameChange while every tile is still shown, before the markers are
\* settled.
C17_CodeOrder ==
    /\ \A k \in DOMAIN stack :
          IsPrefix(stack[k].log, SelectSeq(CodeOrder, Executes))
    /\ AtStatement("hideAll")
          => /\ FlagsMatch(state.index)
             /\ VisibleTiles = MarkersOf(state.tileArr)
             /\ Place(Top.log, "preFrameChange") # 0 <=> options.preFrameChange

\* The flags are already those of the new index while every tile is shown
\* and the new frame is not yet marked.
C17_Witness ==
    /\ AtStatement("hideAll")
    /\ N > I
    /\ state.index # state.prevIndex
    /\ options.preFrameChange
    /\ Top.log = <<"updateState", "preFrameChange", "state-busy", "showAll",
                   "updateNavigation">>
    /\ FlagsMatch(state.index)
    /\ ~FlagsMatch(state.prevIndex)
    /\ VisibleTiles = MarkersOf(state.tileArr)
    /\ VisibleTiles # MarkersOf(state.curFrame)

\* C21: after every commit curTile, the tile that receives focus, is a tile
\* of the sequence and one of the tiles of the committed curFrame, in both
\* modes (the slid last frame and N < I included).
C21_CurTileInCurFrame ==
    (Ready /\ last.committed)
        => /\ state.curTile \in Range(state.tileArr)
           /\ state.curTile \in Range(state.curFrame)

\* C22: in frame mode with N >= I, whatever next, prev and reset calls were
\* made since normalization, the index is a multiple of I or is N - I: the
\* frame shown is a frame of the partition or the slid last window.
C22_IndexOnFrameGrid ==
    (Ready /\ options.incrementMode = "frame" /\ N >= I)
        => \/ state.index % I = 0
           \/ state.index = N - I

\* C23: a navigation call that starts a transition leaves the carousel
\* idle: when it returns the root does not carry state-busy, and the other
\* class names of the root are those it had before the call.
C23_ReturnsToIdle ==
    [][(phase = "ready" /\ last'.committed)
          => /\ "state-busy" \notin Range(rootClass')
             /\ rootClass' = RemoveBusy(rootClass)]_vars

====
